---- MODULE Spec2Model ----
(***************************************************************************)
(* Cape Cod Tides: the Alexa skill handler of src/index.js.                *)
(*                                                                         *)
(* One turn of the skill is one Lambda invocation: an intent handler runs  *)
(* to completion and either answers at once (response.ask / response.tell) *)
(* or issues one https.get and leaves the answer to the callbacks of that  *)
(* request ('response', 'end', 'error').  The session attribute bag        *)
(* (session.attributes.city / .date) is what survives between turns.       *)
(*                                                                         *)
(* Text is modelled as sequences of one-character strings where the code   *)
(* inspects it (city names, date slot values), and as TLA+ strings where   *)
(* the code only concatenates it (query parameters).                       *)
(***************************************************************************)
EXTENDS Integers, Sequences, FiniteSets, TLC

VARIABLES
    session,    \* session.attributes: [city, date], each an optional (<<>> or <<v>>)
    pc,         \* "idle" | "fetching" (https.get issued) | "receiving" ('response' seen, 'end' pending)
    request,    \* the intent request of the current (or last) turn
    dateCalls,  \* the values getDateFromIntent returned in this turn, in call order
    fetches,    \* the https.get requests issued in this turn: <<[station, requestDateParam]>>
    closure,    \* what tideResponseCallback closes over: <<[cityStation, date]>> or <<>>
    responses,  \* the responses handed to the platform in this turn, in order
    thrown,     \* the exception that escaped a handler of this turn, or "none"
    statusCode, \* res.statusCode of this turn's 'response' event, 0 before it
    body,       \* the body the 'end' handler of this turn parsed: <<>> or <<b>>
    zone,       \* the local time zone of the process, in minutes east of UTC
    input,      \* the arguments of a function that is run on its own, <<>> in a conversation
    output      \* what that function returned: <<>> before the call, <<v>> after it

vars == <<session, pc, request, dateCalls, fetches, closure, responses, thrown,
          statusCode, body, zone, input, output>>

(***************************************************************************)
(* Bounds of the model.                                                    *)
(***************************************************************************)
\* a city value is spoken with any of its first MaxCaseLetters letters in
\* upper case (SpecCity)
MaxCaseLetters == 3
\* the readings given to the height formatter are -MaxHeight .. MaxHeight
\* hundredths of a foot (SpecHeight)
MaxHeight == 520
\* longest prediction series of a response body in a conversation (Spec)
MaxLen == 4
\* the water levels of those series are LevelOf(0) .. LevelOf(MaxLevel)
MaxLevel == 1
\* longest prediction series the extractor is run on alone (SpecExtract)
MaxSeriesLen == 8
\* the water levels of those series are LevelOf(0) .. LevelOf(MaxSeriesLevel)
MaxSeriesLevel == 2

(***************************************************************************)
(* JavaScript values.                                                      *)
(***************************************************************************)
\* a slot that is missing, or present with an undefined or empty value: falsy
NoValue == <<>>

\* Number.NaN, as the fields of an Invalid Date
NaN == -1

\* String(n) for the numbers the date code concatenates
NumStr(n) == IF n = NaN THEN "NaN" ELSE ToString(n)

UpperChars == <<"A","B","C","D","E","F","G","H","I","J","K","L","M",
                "N","O","P","Q","R","S","T","U","V","W","X","Y","Z">>
LowerChars == <<"a","b","c","d","e","f","g","h","i","j","k","l","m",
                "n","o","p","q","r","s","t","u","v","w","x","y","z">>

\* one character of String.prototype.toLowerCase
LowerChar(c) ==
    IF \E i \in 1..26 : UpperChars[i] = c
    THEN LowerChars[CHOOSE i \in 1..26 : UpperChars[i] = c]
    ELSE c

\* String.prototype.toLowerCase
toLowerCase(s) == [i \in 1..Len(s) |-> LowerChar(s[i])]

(***************************************************************************)
(* Station directory.                                                      *)
(***************************************************************************)
STATIONS ==
    <<"p", "l", "y", "m", "o", "u", "t", "h">> :> 8446493 @@
    <<"b", "a", "r", "n", "s", "t", "a", "b", "l", "e">> :> 8447335 @@
    <<"s", "e", "s", "u", "i", "t", " ", "h", "a", "r", "b", "o", "r">> :> 8447241 @@
    <<"w", "e", "l", "l", "f", "l", "e", "e", "t">> :> 8446613 @@
    <<"p", "r", "o", "v", "i", "n", "c", "e", "t", "o", "w", "n">> :> 8446121 @@
    <<"c", "h", "a", "t", "h", "a", "m", " ", "s", "t", "a", "g", "e", " ", "h", "a", "r", "b", "o", "r">> :> 8447505 @@
    <<"h", "a", "r", "w", "i", "c", "h", "p", "o", "r", "t", " ", "w", "y", "c", "h", "m", "e", "r", "e", " ", "h", "a", "r", "b", "o", "r">> :> 8447506 @@
    <<"s", "o", "u", "t", "h", " ", "y", "a", "r", "m", "o", "u", "t", "h", " ", "b", "a", "s", "s", " ", "r", "i", "v", "e", "r">> :> 8447504 @@
    <<"d", "e", "n", "n", "i", "s", "p", "o", "r", "t">> :> 8447525 @@
    <<"h", "y", "a", "n", "n", "i", "s", "p", "o", "r", "t">> :> 8447605 @@
    <<"f", "a", "l", "m", "o", "u", "t", "h">> :> 8447865 @@
    <<"w", "o", "o", "d", "s", " ", "h", "o", "l", "e">> :> 8447939 @@
    <<"m", "a", "r", "i", "o", "n">> :> 8447385 @@
    <<"n", "e", "w", " ", "b", "e", "d", "f", "o", "r", "d">> :> 8447584 @@
    <<"w", "e", "s", "t", "p", "o", "r", "t">> :> 8447975 @@
    <<"d", "u", "x", "b", "u", "r", "y">> :> 8446166 @@
    <<"h", "i", "n", "g", "h", "a", "m">> :> 8444775

\* The all-lower-case property names STATIONS, an object literal, inherits
\* from Object.prototype: STATIONS[name] is truthy for them too.
InheritedKeys ==
    { <<"c","o","n","s","t","r","u","c","t","o","r">>,
      <<"_","_","p","r","o","t","o","_","_">> }

\* the value of the expression STATIONS[key]
StationNumber(n) == [kind |-> "number", id |-> n]
InheritedObject == [kind |-> "object", id |-> 0]
Undefined == [kind |-> "undefined", id |-> 0]

StationsLookup(key) ==
    IF key \in DOMAIN STATIONS THEN StationNumber(STATIONS[key])
    ELSE IF key \in InheritedKeys THEN InheritedObject
    ELSE Undefined

Truthy(v) == v.kind # "undefined" /\ ~(v.kind = "number" /\ v.id = 0)

\* the station names in the order getAllStationsText lists them
getAllStationsText == DOMAIN STATIONS

(***************************************************************************)
(* City Resolver.                                                          *)
(***************************************************************************)
\* a default town the directory does not hold
Plymouth_Seattle == <<"S","e","a","t","t","l","e">>
Plymouth == <<"P","l","y","m","o","u","t","h">>

\* intent.slots.City.value -> { city, station } or { error, city }
\* (a field the code leaves out is <<>> for city and Undefined for station)
getCityStationFromIntent(intent, assignDefault) ==
    IF intent.city = NoValue
    THEN IF ~assignDefault
         THEN [error |-> TRUE, city |-> <<>>, station |-> Undefined]
         ELSE [error |-> FALSE, city |-> Plymouth,
               station |-> StationsLookup(toLowerCase(Plymouth))]
    ELSE LET cityName == intent.city IN
         IF Truthy(StationsLookup(toLowerCase(cityName)))
         THEN [error |-> FALSE, city |-> cityName,
               station |-> StationsLookup(toLowerCase(cityName))]
         ELSE [error |-> TRUE, city |-> cityName, station |-> Undefined]

(***************************************************************************)
(* Date Resolver.                                                          *)
(***************************************************************************)
DigitChars == <<"0","1","2","3","4","5","6","7","8","9">>

IsDigit(c) == \E i \in 1..10 : DigitChars[i] = c

DigitVal(c) == (CHOOSE i \in 1..10 : DigitChars[i] = c) - 1

\* the number written by the digits s[from..to]
RECURSIVE DigitsVal(_, _, _)
DigitsVal(s, from, to) ==
    IF to < from THEN 0
    ELSE 10 * DigitsVal(s, from, to - 1) + DigitVal(s[to])

AllDigits(s, from, to) == \A i \in from..to : IsDigit(s[i])

IsLeapYear(y) == (y % 4 = 0 /\ y % 100 # 0) \/ y % 400 = 0

DaysInMonth(y, m) ==
    IF m = 2 THEN (IF IsLeapYear(y) THEN 29 ELSE 28)
    ELSE IF m \in {4, 6, 9, 11} THEN 30 ELSE 31

InvalidDate == [year |-> NaN, month |-> NaN, date |-> NaN]

\* Date.parse(string), as the calendar fields in UTC of the instant it gives:
\* the ISO calendar forms the DATE slot carries (YYYY-MM-DD, YYYY-MM, YYYY)
\* are read as midnight UTC of that day, and text that holds no date at all
\* gives NaN.
DateParse(s) ==
    IF Len(s) = 10 /\ AllDigits(s, 1, 4) /\ s[5] = "-" /\ AllDigits(s, 6, 7)
       /\ s[8] = "-" /\ AllDigits(s, 9, 10)
       /\ DigitsVal(s, 6, 7) \in 1..12
       /\ DigitsVal(s, 9, 10) \in 1..DaysInMonth(DigitsVal(s, 1, 4), DigitsVal(s, 6, 7))
    THEN [year |-> DigitsVal(s, 1, 4), month |-> DigitsVal(s, 6, 7) - 1,
          date |-> DigitsVal(s, 9, 10)]
    ELSE IF Len(s) = 7 /\ AllDigits(s, 1, 4) /\ s[5] = "-" /\ AllDigits(s, 6, 7)
            /\ DigitsVal(s, 6, 7) \in 1..12
    THEN [year |-> DigitsVal(s, 1, 4), month |-> DigitsVal(s, 6, 7) - 1, date |-> 1]
    ELSE IF Len(s) = 4 /\ AllDigits(s, 1, 4)
    THEN [year |-> DigitsVal(s, 1, 4), month |-> 0, date |-> 1]
    ELSE InvalidDate

\* the day before a calendar day (month counted from 0)
PreviousDay(d) ==
    IF d.date > 1 THEN [d EXCEPT !.date = d.date - 1]
    ELSE IF d.month > 0
    THEN [d EXCEPT !.month = d.month - 1, !.date = DaysInMonth(d.year, d.month)]
    ELSE [year |-> d.year - 1, month |-> 11, date |-> 31]

\* the time zones a process is run in: New York, UTC (AWS Lambda), Tokyo
TimeZones == {-300, 0, 540}

\* new Date(string) followed by getFullYear / getMonth / getDate: the getters
\* give the fields in the local time zone of the process, where midnight UTC
\* is still the day before when the zone is west of UTC.
NewDate(s) ==
    LET utc == DateParse(s)
    IN  IF utc = InvalidDate THEN InvalidDate
        ELSE IF zone < 0 THEN PreviousDay(utc) ELSE utc

\* a + b and a < b on numbers that may be NaN
JsAdd(a, b) == IF a = NaN \/ b = NaN THEN NaN ELSE a + b
JsLess(a, b) == a # NaN /\ b # NaN /\ a < b

MONTHS == <<"January", "February", "March", "April", "May", "June", "July",
            "August", "September", "October", "November", "December">>

\* alexaDateUtil.getFormattedDate: a spoken form of the calendar date
getFormattedDate(date) ==
    IF date.month = NaN THEN "undefined undefined"
    ELSE MONTHS[date.month + 1] \o " " \o NumStr(date.date) \o " " \o NumStr(date.year)

\* intent.slots.Date.value -> { displayDate, requestDateParam }.
\* The result is optional, <<>> standing for a falsy return value, because
\* the callers test it with !date.
getDateFromIntent(intent) ==
    IF intent.date = NoValue
    THEN << [displayDate |-> "Today", requestDateParam |-> "date=today"] >>
    ELSE LET date == NewDate(intent.date)
             month1 == JsAdd(date.month, 1)
             month == IF JsLess(month1, 10) THEN "0" \o NumStr(month1) ELSE NumStr(month1)
             dayOfMonth == IF JsLess(date.date, 10) THEN "0" \o NumStr(date.date)
                           ELSE NumStr(date.date)
             requestDay == "begin_date=" \o NumStr(date.year) \o month \o dayOfMonth
                           \o "&range=24"
         IN << [displayDate |-> getFormattedDate(date), requestDateParam |-> requestDay] >>

(***************************************************************************)
(* Tide Extractor.                                                         *)
(***************************************************************************)
\* the water level, in hundredths of a foot, of level number k
LevelOf(k) == 115 * k - 130

Levels(maxLevel) == { LevelOf(k) : k \in 0..maxLevel }

\* the predictions array of a body: sample i is { t: i, v: level }
Predictions(levels) == [i \in 1..Len(levels) |-> [t |-> i, v |-> levels[i]]]

\* a comparison that takes an equal level for a rise
isTideIncreasing_OrLevel(lastPrediction, currentPrediction) ==
    lastPrediction.v <= currentPrediction.v
isTideIncreasing(lastPrediction, currentPrediction) ==
    lastPrediction.v < currentPrediction.v

\* the locals of findHighTide before the loop
ScanInit ==
    [lastPrediction |-> <<>>, firstHighTide |-> <<>>, secondHighTide |-> <<>>,
     lowTide |-> <<>>, firstTideDone |-> FALSE, done |-> FALSE]

\* as ScanStep, without the break: a falling sample after the second high
\* tide becomes the low tide and the loop goes on
ScanStep_NoBreak(st, prediction) ==
    IF st.lastPrediction = <<>>
    THEN [st EXCEPT !.lastPrediction = <<prediction>>]
    ELSE IF isTideIncreasing(st.lastPrediction[1], prediction)
    THEN IF ~st.firstTideDone
         THEN [st EXCEPT !.firstHighTide = <<prediction>>,
                         !.lastPrediction = <<prediction>>]
         ELSE [st EXCEPT !.secondHighTide = <<prediction>>,
                         !.lastPrediction = <<prediction>>]
    ELSE IF st.firstHighTide # <<>>
         THEN [st EXCEPT !.firstTideDone = TRUE, !.lowTide = <<prediction>>,
                         !.lastPrediction = <<prediction>>]
         ELSE [st EXCEPT !.lastPrediction = <<prediction>>]

\* as ScanStep, with the first high tide set by the first rising sample only
\* and not moved up by the rising samples that follow it
ScanStep_FirstRisingSample(st, prediction) ==
    IF st.lastPrediction = <<>>
    THEN [st EXCEPT !.lastPrediction = <<prediction>>]
    ELSE IF isTideIncreasing(st.lastPrediction[1], prediction)
    THEN IF ~st.firstTideDone
         THEN [st EXCEPT !.firstHighTide = IF @ = <<>> THEN <<prediction>> ELSE @,
                         !.lastPrediction = <<prediction>>]
         ELSE [st EXCEPT !.secondHighTide = <<prediction>>,
                         !.lastPrediction = <<prediction>>]
    ELSE IF ~st.firstTideDone /\ st.firstHighTide # <<>>
         THEN [st EXCEPT !.firstTideDone = TRUE, !.lowTide = <<prediction>>,
                         !.lastPrediction = <<prediction>>]
         ELSE IF st.secondHighTide # <<>>
         THEN [st EXCEPT !.done = TRUE]
         ELSE IF st.firstTideDone
         THEN [st EXCEPT !.lowTide = <<prediction>>, !.lastPrediction = <<prediction>>]
         ELSE [st EXCEPT !.lastPrediction = <<prediction>>]

\* one iteration of the for loop of findHighTide on the sample prediction
ScanStep(st, prediction) ==
    IF st.lastPrediction = <<>>
    THEN [st EXCEPT !.lastPrediction = <<prediction>>]
    ELSE IF isTideIncreasing(st.lastPrediction[1], prediction)
    THEN IF ~st.firstTideDone
         THEN [st EXCEPT !.firstHighTide = <<prediction>>,
                         !.lastPrediction = <<prediction>>]
         ELSE [st EXCEPT !.secondHighTide = <<prediction>>,
                         !.lastPrediction = <<prediction>>]
    ELSE \* we're decreasing
         IF ~st.firstTideDone /\ st.firstHighTide # <<>>
         THEN [st EXCEPT !.firstTideDone = TRUE, !.lowTide = <<prediction>>,
                         !.lastPrediction = <<prediction>>]
         ELSE IF st.secondHighTide # <<>>
         THEN [st EXCEPT !.done = TRUE]  \* break
         ELSE IF st.firstTideDone
         THEN [st EXCEPT !.lowTide = <<prediction>>, !.lastPrediction = <<prediction>>]
         ELSE [st EXCEPT !.lastPrediction = <<prediction>>]

\* the for loop of findHighTide from sample i on
RECURSIVE ScanFrom(_, _, _)
ScanFrom(predictions, i, st) ==
    IF i > Len(predictions) \/ st.done THEN st
    ELSE ScanFrom(predictions, i + 1, ScanStep(st, predictions[i]))

\* alexaDateUtil.getFormattedTime(new Date(t)): a spoken form of the instant
getFormattedTime(t) == "time " \o ToString(t)

\* height in hundredths of a foot -> "<N> feet" or "<N> and a half feet"
getFormattedHeight(height) ==
    LET isNegative == height < 0
        h == IF height < 0 THEN -height ELSE height
        remainder == h % 100
        remainderText == IF remainder < 25 THEN ""
                         ELSE IF remainder < 75 THEN " and a half" ELSE ""
        feet0 == IF remainder < 75 THEN h \div 100
                 ELSE (IF remainder = 0 THEN h \div 100 ELSE h \div 100 + 1)
        \* feet *= -1 turns 0 into -0, which prints as "0"
        feet == IF isNegative THEN -feet0 ELSE feet0
    IN  ToString(feet) \o remainderText \o " feet"

\* findHighTide: <<summary>>, or <<>> when reading .t of an undefined tide
\* throws a TypeError
findHighTide(predictions) ==
    LET st == ScanFrom(predictions, 1, ScanInit) IN
    IF st.firstHighTide = <<>> \/ st.lowTide = <<>> \/ st.secondHighTide = <<>>
    THEN <<>>
    ELSE << [firstHighTideTime |-> getFormattedTime(st.firstHighTide[1].t),
             firstHighTideHeight |-> getFormattedHeight(st.firstHighTide[1].v),
             lowTideTime |-> getFormattedTime(st.lowTide[1].t),
             lowTideHeight |-> getFormattedHeight(st.lowTide[1].v),
             secondHighTideTime |-> getFormattedTime(st.secondHighTide[1].t),
             secondHighTideHeight |-> getFormattedHeight(st.secondHighTide[1].v)] >>

(***************************************************************************)
(* Responses.  AlexaSkill's Response: ask keeps the session open and       *)
(* carries a reprompt, tell and tellWithCard end the session.              *)
(***************************************************************************)
\* a spoken text: which sentence it is, and the values spliced into it
Speech(msg, city, displayDate, tides) ==
    [msg |-> msg, city |-> city, displayDate |-> displayDate, tides |-> tides]

Text(msg) == Speech(msg, <<>>, "", <<>>)

ask(speechOutput, repromptText) ==
    [type |-> "ask", speech |-> speechOutput, reprompt |-> <<repromptText>>,
     shouldEndSession |-> FALSE]

tell(speechOutput) ==
    [type |-> "tell", speech |-> speechOutput, reprompt |-> <<>>,
     shouldEndSession |-> TRUE]

tellWithCard(speechOutput) ==
    [type |-> "tellWithCard", speech |-> speechOutput, reprompt |-> <<>>,
     shouldEndSession |-> TRUE]

\* "Currently, I know tide information for these coastal towns: ... Which town
\* would you like tide information for?"
SupportedTownsReprompt == Text("these coastal towns")

\* "I'm sorry, I don't have any data for <city>. " + the reprompt, or the
\* reprompt alone when the slot was empty
UnknownCitySpeech(cityStation) ==
    IF cityStation.city # <<>>
    THEN Speech("no data for city, these coastal towns", cityStation.city, "", <<>>)
    ELSE SupportedTownsReprompt

\* "Please try again saying a day of the week ... For which date would you like
\* tide information?"
DateReprompt == Text("try again saying a day, for which date")

\* "I'm sorry, I didn't understand that date. " + the reprompt
BadDateSpeech == Text("didn't understand that date, try again saying a day, for which date")

\* "Sorry, the National Oceanic tide service is experiencing a problem. Please
\* try again later"
ServiceProblemSpeech == Text("tide service is experiencing a problem")

(***************************************************************************)
(* Handlers.  A handler maps the intent and the session attributes to the  *)
(* outcome of its synchronous run: the attributes it leaves, the dates it  *)
(* resolved, the request it issued with the callback's closure, and the    *)
(* response it gave.                                                       *)
(***************************************************************************)
Outcome(attributes, dates, issued, closed, given) ==
    [session |-> attributes, dateCalls |-> dates, fetches |-> issued,
     closure |-> closed, responses |-> given]

Answer(attributes, dates, response) ==
    Outcome(attributes, dates, <<>>, <<>>, <<response>>)

\* makeTideRequest up to https.get: the query carries date.requestDateParam
\* and the station
makeTideRequest(station, date) ==
    [station |-> station, requestDateParam |-> date.requestDateParam]

\* getFinalTideResponse up to the return of makeTideRequest: one request
\* issued, tideResponseCallback pending with cityStation and date closed over
getFinalTideResponse(attributes, dates, cityStation, date) ==
    Outcome(attributes, dates, <<makeTideRequest(cityStation.station, date)>>,
            <<[cityStation |-> cityStation, date |-> date]>>, <<>>)

handleWelcomeRequest(attributes) ==
    Answer(attributes, <<>>, ask(Text("welcome, which town"), Text("help, which town")))

handleHelpRequest(attributes) ==
    Answer(attributes, <<>>, ask(Text("help, or say exit, which town"), Text("which town")))

handleSupportedCitiesRequest(attributes) ==
    Answer(attributes, <<>>, ask(Text("I know these towns, which town"), Text("which town")))

\* as handleCityDialogRequest, without the test of the stored date: the city
\* is stored and the date asked for even when a date is stored
handleCityDialogRequest_IgnoresStoredDate(intent, attributes) ==
    LET cityStation == getCityStationFromIntent(intent, FALSE) IN
    IF cityStation.error
    THEN Answer(attributes, <<>>, ask(UnknownCitySpeech(cityStation), SupportedTownsReprompt))
    ELSE Answer([attributes EXCEPT !.city = <<cityStation>>], <<>>,
                ask(Text("for which date"),
                    Speech("for which date, for city", cityStation.city, "", <<>>)))

handleCityDialogRequest(intent, attributes) ==
    LET cityStation == getCityStationFromIntent(intent, FALSE) IN
    IF cityStation.error
    THEN Answer(attributes, <<>>, ask(UnknownCitySpeech(cityStation), SupportedTownsReprompt))
    ELSE IF attributes.date # <<>>
    THEN getFinalTideResponse(attributes, <<>>, cityStation, attributes.date[1])
    ELSE Answer([attributes EXCEPT !.city = <<cityStation>>], <<>>,
                ask(Text("for which date"),
                    Speech("for which date, for city", cityStation.city, "", <<>>)))

handleDateDialogRequest(intent, attributes) ==
    LET date == getDateFromIntent(intent) IN
    IF date = <<>>
    THEN Answer(attributes, <<date>>, ask(BadDateSpeech, DateReprompt))
    ELSE IF attributes.city # <<>>
    THEN getFinalTideResponse(attributes, <<date>>, attributes.city[1], date[1])
    ELSE Answer([attributes EXCEPT !.date = date], <<date>>,
                ask(Speech("for which town, for date", <<>>, date[1].displayDate, <<>>),
                    Text("for which town")))

\* a dialog that asks for the day as soon as anything is stored
handleNoSlotDialogRequest_AnythingStored(intent, attributes) ==
    IF attributes.city # <<>> \/ attributes.date # <<>>
    THEN Answer(attributes, <<>>,
                ask(Text("try again saying a day"), Text("try again saying a day")))
    ELSE handleSupportedCitiesRequest(attributes)
handleNoSlotDialogRequest(intent, attributes) ==
    IF attributes.city # <<>>
    THEN Answer(attributes, <<>>,
                ask(Text("try again saying a day"), Text("try again saying a day")))
    ELSE handleSupportedCitiesRequest(attributes)

handleOneshotTideRequest(intent, attributes) ==
    LET cityStation == getCityStationFromIntent(intent, TRUE) IN
    IF cityStation.error
    THEN Answer(attributes, <<>>, ask(UnknownCitySpeech(cityStation), SupportedTownsReprompt))
    ELSE LET date == getDateFromIntent(intent) IN
         IF date = <<>>
         THEN Answer([attributes EXCEPT !.city = <<cityStation>>], <<date>>,
                     ask(BadDateSpeech, DateReprompt))
         ELSE getFinalTideResponse(attributes, <<date>>, cityStation, date[1])

\* intentHandlers.DialogTideIntent
\* a dispatch that looks at the date slot first
handleDialogTideIntent_DateFirst(intent, attributes) ==
    IF intent.date # NoValue THEN handleDateDialogRequest(intent, attributes)
    ELSE IF intent.city # NoValue THEN handleCityDialogRequest(intent, attributes)
    ELSE handleNoSlotDialogRequest(intent, attributes)
handleDialogTideIntent(intent, attributes) ==
    IF intent.city # NoValue THEN handleCityDialogRequest(intent, attributes)
    ELSE IF intent.date # NoValue THEN handleDateDialogRequest(intent, attributes)
    ELSE handleNoSlotDialogRequest(intent, attributes)

\* tideResponseCallback(err, highTideResponse)
tideResponseCallback(closed, err, highTideResponse) ==
    IF err
    THEN tellWithCard(ServiceProblemSpeech)
    ELSE tellWithCard(Speech("first high tide, low tide, second high tide",
                             closed.cityStation.city, closed.date.displayDate,
                             <<highTideResponse.firstHighTideTime,
                               highTideResponse.lowTideTime,
                               highTideResponse.secondHighTideTime>>))

\* the 'end' handler of makeTideRequest on the body received: the exception
\* it throws ("none" if it returns) and the response its callback gives
onEnd(closed, noaaResponseString) ==
    IF noaaResponseString.kind = "text"
    THEN [thrown |-> "SyntaxError", responses |-> <<>>]      \* JSON.parse
    ELSE IF noaaResponseString.kind = "error"
    THEN [thrown |-> "ReferenceError", responses |-> <<>>]   \* noaaResponseObj is not defined
    ELSE IF noaaResponseString.kind = "object"
    THEN [thrown |-> "TypeError", responses |-> <<>>]        \* predictions is undefined
    ELSE LET highTide == findHighTide(Predictions(noaaResponseString.levels)) IN
         IF highTide = <<>>
         THEN [thrown |-> "TypeError", responses |-> <<>>]   \* firstHighTide is undefined
         ELSE [thrown |-> "none",
               responses |-> <<tideResponseCallback(closed, FALSE, highTide[1])>>]

\* the response callback of https.get, before any data: the responses it gives
onResponse(closed, status) ==
    IF status # 200
    THEN <<tideResponseCallback(closed, TRUE, <<>>)>>
    ELSE <<>>

\* the 'error' handler of the request
onError(closed) == <<tideResponseCallback(closed, TRUE, <<>>)>>

(***************************************************************************)
(* Inputs.                                                                 *)
(***************************************************************************)
CitySlotValues ==
    { NoValue,
      Plymouth,
      <<"h","i","n","g","h","a","m">>,
      <<"N","o","w","h","e","r","e","v","i","l","l","e">>,
      <<"c","o","n","s","t","r","u","c","t","o","r">> }

DateSlotValues ==
    { NoValue,
      <<"2","0","1","7","-","0","9","-","2","3">>,
      <<"2","0","1","7","-","1","1","-","0","5">>,
      <<"n","o","t"," ","a"," ","d","a","t","e">> }

StatusCodes == {200, 500}

\* every series of at most maxLen levels out of LevelOf(0..maxLevel)
Series(maxLen, maxLevel) == UNION { [1..n -> Levels(maxLevel)] : n \in 0..maxLen }

\* {"predictions": [...]}
PredictionBodies(maxLen, maxLevel) ==
    { [kind |-> "predictions", levels |-> s] : s \in Series(maxLen, maxLevel) }

\* the bodies a response can carry: text that is no JSON, {"error": {...}},
\* an object with neither error nor predictions, {"predictions": [...]}
Bodies ==
    { [kind |-> k, levels |-> <<>>] : k \in {"text", "error", "object"} }
    \cup PredictionBodies(MaxLen, MaxLevel)

(***************************************************************************)
(* The state machine.                                                      *)
(***************************************************************************)
EmptyAttributes == [city |-> <<>>, date |-> <<>>]

\* a new session, no request in progress, in a process of any of the time
\* zones (the zone never changes afterwards)
Init ==
    /\ session = EmptyAttributes
    /\ pc = "idle"
    /\ request = [intent |-> "none", city |-> NoValue, date |-> NoValue]
    /\ dateCalls = <<>>
    /\ fetches = <<>>
    /\ closure = <<>>
    /\ responses = <<>>
    /\ thrown = "none"
    /\ statusCode = 0
    /\ body = <<>>
    /\ zone \in TimeZones
    /\ input = <<>>
    /\ output = <<>>

\* the turn ended the session: its answer said so, or it crashed
SessionEnded ==
    \/ thrown # "none"
    \/ responses # <<>> /\ responses[1].shouldEndSession

\* The session has ended and the platform discards its attribute bag: the
\* next request opens a new session, in the state after construction.
NewSession ==
    /\ pc = "idle"
    /\ SessionEnded
    /\ session' = EmptyAttributes
    /\ request' = [intent |-> "none", city |-> NoValue, date |-> NoValue]
    /\ dateCalls' = <<>>
    /\ fetches' = <<>>
    /\ closure' = <<>>
    /\ responses' = <<>>
    /\ thrown' = "none"
    /\ statusCode' = 0
    /\ body' = <<>>
    /\ UNCHANGED <<pc, zone, input, output>>

\* a turn of an open session: the handler of the intent runs to its return
Turn(name, intent, outcome) ==
    /\ pc = "idle"
    /\ ~SessionEnded
    /\ request' = [intent |-> name, city |-> intent.city, date |-> intent.date]
    /\ session' = outcome.session
    /\ dateCalls' = outcome.dateCalls
    /\ fetches' = outcome.fetches
    /\ closure' = outcome.closure
    /\ responses' = outcome.responses
    /\ thrown' = "none"
    /\ statusCode' = 0
    /\ body' = <<>>
    /\ pc' = IF outcome.fetches # <<>> THEN "fetching" ELSE "idle"
    /\ UNCHANGED <<zone, input, output>>

NoSlots == [city |-> NoValue, date |-> NoValue]

LaunchRequest ==
    Turn("LaunchRequest", NoSlots, handleWelcomeRequest(session))

OneshotTideIntent ==
    \E c \in CitySlotValues, d \in DateSlotValues :
        Turn("OneshotTideIntent", [city |-> c, date |-> d],
             handleOneshotTideRequest([city |-> c, date |-> d], session))

DialogTideIntent ==
    \E c \in CitySlotValues, d \in DateSlotValues :
        Turn("DialogTideIntent", [city |-> c, date |-> d],
             handleDialogTideIntent([city |-> c, date |-> d], session))

SupportedCitiesIntent ==
    Turn("SupportedCitiesIntent", NoSlots, handleSupportedCitiesRequest(session))

HelpIntent ==
    Turn("AMAZON.HelpIntent", NoSlots, handleHelpRequest(session))

StopIntent ==
    \E name \in {"AMAZON.StopIntent", "AMAZON.CancelIntent"} :
        Turn(name, NoSlots, Answer(session, <<>>, tell(Text("Goodbye"))))

\* the request fails: the 'error' handler runs
HttpError ==
    /\ pc = "fetching"
    /\ responses' = responses \o onError(closure[1])
    /\ pc' = "idle"
    /\ UNCHANGED <<session, request, dateCalls, fetches, closure, thrown, statusCode, body,
                   zone, input, output>>

\* the response head arrives: the callback of https.get runs
HttpResponse ==
    /\ pc = "fetching"
    /\ \E status \in StatusCodes :
        /\ statusCode' = status
        /\ responses' = responses \o onResponse(closure[1], status)
    /\ pc' = "receiving"
    /\ UNCHANGED <<session, request, dateCalls, fetches, closure, thrown, body,
                   zone, input, output>>

\* the body is complete: the 'end' handler runs
HttpEnd(bodies) ==
    /\ pc = "receiving"
    /\ \E b \in bodies :
        \E ended \in {onEnd(closure[1], b)} :
            /\ body' = <<b>>
            /\ thrown' = ended.thrown
            /\ responses' = responses \o ended.responses
    /\ pc' = "idle"
    /\ UNCHANGED <<session, request, dateCalls, fetches, closure, statusCode,
                   zone, input, output>>

Next ==
    \/ LaunchRequest
    \/ OneshotTideIntent
    \/ DialogTideIntent
    \/ SupportedCitiesIntent
    \/ HelpIntent
    \/ StopIntent
    \/ HttpError
    \/ HttpResponse
    \/ HttpEnd(Bodies)
    \/ NewSession

Spec == Init /\ [][Next]_vars

(***************************************************************************)
(* The Tide Extractor on its own: a one-shot request without slots         *)
(* (Plymouth, today) has issued its fetch and the response head has come   *)
(* with status 200; the 'end' handler then runs on a body whose series is  *)
(* any of the longer series.  No date is read on this path, so one time    *)
(* zone stands for all.                                                    *)
(***************************************************************************)
InitExtract ==
    LET outcome == handleOneshotTideRequest(NoSlots, EmptyAttributes) IN
    /\ session = outcome.session
    /\ pc = "receiving"
    /\ request = [intent |-> "OneshotTideIntent", city |-> NoValue, date |-> NoValue]
    /\ dateCalls = outcome.dateCalls
    /\ fetches = outcome.fetches
    /\ closure = outcome.closure
    /\ responses = outcome.responses
    /\ thrown = "none"
    /\ statusCode = 200
    /\ body = <<>>
    /\ zone = 0
    /\ input = <<>>
    /\ output = <<>>

NextExtract == HttpEnd(PredictionBodies(MaxSeriesLen, MaxSeriesLevel))

SpecExtract == InitExtract /\ [][NextExtract]_vars

(***************************************************************************)
(* The resolvers and the height formatter on their own: each is called     *)
(* once on arguments drawn from a bounded set, outside any conversation.   *)
(***************************************************************************)
\* no conversation is going on: the variables of the conversation rest
NoConversation ==
    /\ session = EmptyAttributes
    /\ request = [intent |-> "none", city |-> NoValue, date |-> NoValue]
    /\ dateCalls = <<>>
    /\ fetches = <<>>
    /\ closure = <<>>
    /\ responses = <<>>
    /\ thrown = "none"
    /\ statusCode = 0
    /\ body = <<>>

\* one character of String.prototype.toUpperCase
UpperChar(c) ==
    IF \E i \in 1..26 : LowerChars[i] = c
    THEN UpperChars[CHOOSE i \in 1..26 : LowerChars[i] = c]
    ELSE c

\* the spellings of a name with some of its first n letters in upper case
CaseVariants(name, n) ==
    { [i \in 1..Len(name) |-> IF i \in up THEN UpperChar(name[i]) ELSE name[i]] :
        up \in SUBSET (1..n) }

\* city values in several spellings: three towns of the directory, a town
\* outside it, and a name every object inherits
CitySpellings(n) ==
    {NoValue} \cup UNION { CaseVariants(name, n) :
        name \in { <<"m","a","r","i","o","n">>,
                   <<"w","o","o","d","s"," ","h","o","l","e">>,
                   <<"h","i","n","g","h","a","m">>,
                   <<"b","o","s","t","o","n">>,
                   <<"c","o","n","s","t","r","u","c","t","o","r">> } }

\* The City Resolver is to be called on two city values, with the same
\* assignDefault.  It reads no clock: one time zone stands for all.
InitCity ==
    /\ NoConversation
    /\ pc = "resolving city"
    /\ zone = 0
    /\ input \in [first : CitySpellings(MaxCaseLetters),
                  second : CitySpellings(MaxCaseLetters),
                  assignDefault : BOOLEAN]
    /\ output = <<>>

CityResolverCall ==
    /\ pc = "resolving city"
    /\ output' = << [first |-> getCityStationFromIntent(
                                  [city |-> input.first, date |-> NoValue],
                                  input.assignDefault),
                     second |-> getCityStationFromIntent(
                                  [city |-> input.second, date |-> NoValue],
                                  input.assignDefault)] >>
    /\ pc' = "city resolved"
    /\ UNCHANGED <<session, request, dateCalls, fetches, closure, responses, thrown,
                   statusCode, body, zone, input>>

NextCity == CityResolverCall

SpecCity == InitCity /\ [][NextCity]_vars

\* The height formatter is to be called on a reading (prediction.v), in
\* hundredths of a foot.  The fractions .25 and .75 are binary fractions,
\* so the comparisons of the code are exact on them.
InitHeight ==
    /\ NoConversation
    /\ pc = "formatting height"
    /\ zone = 0
    /\ input \in (-MaxHeight)..MaxHeight
    /\ output = <<>>

HeightFormatterCall ==
    /\ pc = "formatting height"
    /\ output' = << getFormattedHeight(input) >>
    /\ pc' = "height formatted"
    /\ UNCHANGED <<session, request, dateCalls, fetches, closure, responses, thrown,
                   statusCode, body, zone, input>>

NextHeight == HeightFormatterCall

SpecHeight == InitHeight /\ [][NextHeight]_vars

\* the two digits of a number below 100
TwoDigits(n) == <<DigitChars[(n \div 10) + 1], DigitChars[(n % 10) + 1]>>

\* the date value YYYY-MM-DD of a calendar day
DateValue(y, m, d) ==
    TwoDigits(y \div 100) \o TwoDigits(y % 100) \o <<"-">> \o TwoDigits(m)
    \o <<"-">> \o TwoDigits(d)

\* the years the Date Resolver is run on: a leap year and a common year
Years == {2016, 2017}

\* every day of those years as a date value, and no value
CalendarDateValues ==
    {NoValue} \cup UNION { { DateValue(y, m, d) : d \in 1..DaysInMonth(y, m) } :
                             y \in Years, m \in 1..12 }

\* The Date Resolver is to be called on a date value, in a process of any
\* of the time zones.
InitDate ==
    /\ NoConversation
    /\ pc = "resolving date"
    /\ zone \in TimeZones
    /\ input \in CalendarDateValues
    /\ output = <<>>

DateResolverCall ==
    /\ pc = "resolving date"
    /\ output' = << getDateFromIntent([city |-> NoValue, date |-> input]) >>
    /\ pc' = "date resolved"
    /\ UNCHANGED <<session, request, dateCalls, fetches, closure, responses, thrown,
                   statusCode, body, zone, input>>

NextDate == DateResolverCall

SpecDate == InitDate /\ [][NextDate]_vars

(***************************************************************************)
(* Vocabulary of the properties.                                           *)
(***************************************************************************)
\* a city value that names a town of the directory, in any letter case
InDirectory(c) == c # NoValue /\ toLowerCase(c) \in DOMAIN STATIONS

\* a city value that names no town of the directory
NotInDirectory(c) == c # NoValue /\ toLowerCase(c) \notin DOMAIN STATIONS

ValidCities == { c \in CitySlotValues : InDirectory(c) }

\* the directory's station for a city value
DirectoryStation(c) == StationNumber(STATIONS[toLowerCase(c)])

\* the successful resolution of a city value of the directory
ResolvedCity(c) == [error |-> FALSE, city |-> c, station |-> DirectoryStation(c)]

\* a date value written YYYY-MM-DD
IsCalendarDate(d) ==
    /\ Len(d) = 10
    /\ \A i \in {1, 2, 3, 4, 6, 7, 9, 10} : IsDigit(d[i])
    /\ d[5] = "-" /\ d[8] = "-"

\* a date value that holds no digit at all: no calendar date can be read from it
Unparseable(d) == d # NoValue /\ \A i \in 1..Len(d) : ~IsDigit(d[i])

ValidDates == { d \in DateSlotValues : d # NoValue /\ IsCalendarDate(d) }

\* begin_date=YYYYMMDD&range=24 with the digits of the date value
ExpectedParam(d) ==
    "begin_date=" \o d[1] \o d[2] \o d[3] \o d[4] \o d[6] \o d[7] \o d[9] \o d[10]
    \o "&range=24"

\* the query parameter the Date Resolver gives for the date value d
ResolvedParam(d) ==
    getDateFromIntent([city |-> NoValue, date |-> d])[1].requestDateParam

\* a step from this state is a turn: an intent handler runs
TurnBegins == pc = "idle" /\ ~SessionEnded

\* the turn is over: no callback of it is pending
TurnOver == pc = "idle" /\ request.intent # "none"

\* the unknown-city question for the city value c, with the list of towns
UnknownCityQuestion(c) ==
    ask(Speech("no data for city, these coastal towns", c, "", <<>>),
        SupportedTownsReprompt)

\* the question after a date that was not understood
BadDateQuestion == ask(BadDateSpeech, DateReprompt)

\* C1: a one-shot request whose city value is not in the directory is answered
\* with the unknown-city question, keeps the session open, issues no fetch and
\* does not evaluate the date slot, whatever the date slot holds.
C1_OneshotUnknownCity ==
    (request.intent = "OneshotTideIntent" /\ NotInDirectory(request.city))
    => /\ pc = "idle"
       /\ responses = <<UnknownCityQuestion(request.city)>>
       /\ ~responses[1].shouldEndSession
       /\ fetches = <<>>
       /\ dateCalls = <<>>

\* C2: in a fresh session, a DialogTideIntent turn with only a valid city (or
\* only a valid date) stores it, asks for the other and fetches nothing; the
\* turn that then supplies the other value issues exactly one fetch, for the
\* directory station of the city and the query parameter resolved from the date, the
\* same in both orders.
C2_TwoTurnDialog ==
    [][ (TurnBegins /\ request'.intent = "DialogTideIntent")
        => /\ \A c \in ValidCities :
                (session = EmptyAttributes /\ request'.city = c /\ request'.date = NoValue)
                => /\ fetches' = <<>>
                   /\ session' = [city |-> <<ResolvedCity(c)>>, date |-> <<>>]
                   /\ responses' = <<ask(Text("for which date"),
                                         Speech("for which date, for city", c, "", <<>>))>>
           /\ \A d \in ValidDates :
                (session = EmptyAttributes /\ request'.city = NoValue /\ request'.date = d)
                => /\ fetches' = <<>>
                   /\ session'.city = <<>>
                   /\ Len(session'.date) = 1
                   /\ session'.date[1].requestDateParam = ResolvedParam(d)
                   /\ responses' = <<ask(Speech("for which town, for date", <<>>,
                                                session'.date[1].displayDate, <<>>),
                                         Text("for which town"))>>
           /\ \A c \in ValidCities, d \in ValidDates :
                /\ (/\ session = [city |-> <<ResolvedCity(c)>>, date |-> <<>>]
                    /\ request'.city = NoValue /\ request'.date = d)
                   => /\ fetches' = <<[station |-> DirectoryStation(c),
                                       requestDateParam |-> ResolvedParam(d)]>>
                      /\ responses' = <<>>
                /\ (/\ session.city = <<>> /\ Len(session.date) = 1
                    /\ session.date[1].requestDateParam = ResolvedParam(d)
                    /\ request'.city = c /\ request'.date = NoValue)
                   => /\ fetches' = <<[station |-> DirectoryStation(c),
                                       requestDateParam |-> ResolvedParam(d)]>>
                      /\ responses' = <<>>
      ]_vars

\* the second turn of both orders has happened for Plymouth on 2017-09-23:
\* the stored date met the city, with that one fetch issued
C2_Witness ==
    /\ request.intent = "DialogTideIntent"
    /\ request.city = Plymouth
    /\ session.date # <<>>
    /\ fetches = <<[station |-> DirectoryStation(Plymouth),
                    requestDateParam |-> "begin_date=20170923&range=24"]>>

\* C1 for the city values that name no property of any object: every such
\* unknown city is answered as C1 says
C1_OrdinaryUnknownCity ==
    (/\ request.intent = "OneshotTideIntent"
     /\ NotInDirectory(request.city)
     /\ toLowerCase(request.city) \notin InheritedKeys)
    => /\ pc = "idle"
       /\ responses = <<UnknownCityQuestion(request.city)>>
       /\ fetches = <<>>
       /\ dateCalls = <<>>

\* C3: every handled turn ends with a response and without an escaped
\* exception, also after a fetch, whatever the request's outcome.
C3_EveryTurnResponds ==
    TurnOver => (responses # <<>> /\ thrown = "none")

\* the request of the turn failed in transport: the 'error' handler ran
TransportError == pc = "idle" /\ fetches # <<>> /\ statusCode = 0

\* the response of the turn came with a status other than 200
NonSuccessStatus == pc = "idle" /\ fetches # <<>> /\ statusCode \notin {0, 200}

\* the body of the turn's response carried an error payload
RemoteApplicationError == pc = "idle" /\ body # <<>> /\ body[1].kind = "error"

\* what the user hears is the service-problem message, told with a card
HearsServiceProblem ==
    responses # <<>> /\ responses[1] = tellWithCard(ServiceProblemSpeech)

\* C4: a transport error, a status other than 200 and an error payload in the
\* body each end the turn with the one service-problem message.
C4_FailuresSameMessage ==
    (TransportError \/ NonSuccessStatus \/ RemoteApplicationError)
    => HearsServiceProblem

\* the step from sample i to sample i + 1 of the series s rises
Rising(s, i) == s[i] < s[i + 1]

\* the number of direction changes of the series s: the pairs of consecutive
\* steps of which one rises and the other does not
DirectionChanges(s) ==
    Cardinality({ i \in 1..(Len(s) - 2) : Rising(s, i) # Rising(s, i + 1) })

\* the body of the turn's response carried the series of predictions s
GotSeries == pc = "idle" /\ body # <<>> /\ body[1].kind = "predictions"

\* a response of the turn is a tide summary
SummaryGiven ==
    \E i \in 1..Len(responses) :
        responses[i].speech.msg = "first high tide, low tide, second high tide"

\* C5: a series that lacks the direction reversals of a tidal day ends the
\* turn with the service-problem message, and no tide summary is given.
C5_MalformedSeriesMessage ==
    (GotSeries /\ DirectionChanges(body[1].levels) < 3)
    => (HearsServiceProblem /\ ~SummaryGiven)

\* C6: the Date Resolver returns failure, a falsy value, for a date value
\* that is present and cannot be read as a calendar date.
C6_UnparseableDateFails ==
    Unparseable(request.date)
    => \A i \in 1..Len(dateCalls) : dateCalls[i] = <<>>

\* the turn resolves the date slot: a one-shot request with a valid or
\* defaulted city, or a dialog turn without a city value
DateTurn ==
    \/ /\ request.intent = "OneshotTideIntent"
       /\ (request.city = NoValue \/ InDirectory(request.city))
    \/ /\ request.intent = "DialogTideIntent"
       /\ request.city = NoValue

\* C7: a turn whose date value cannot be read as a date issues no fetch and
\* asks for the date with the didn't-understand message, the session open;
\* the one-shot request has then stored its resolved city.
C7_UnparseableDateAsksAgain ==
    (DateTurn /\ Unparseable(request.date))
    => /\ fetches = <<>>
       /\ responses = <<BadDateQuestion>>
       /\ request.intent = "OneshotTideIntent"
          => session.city = << getCityStationFromIntent(request, TRUE) >>

\* the turn has a city resolved from the directory: of its city value, of
\* the default, or the stored one when the turn brings a date only
CityReady ==
    IF request.intent = "OneshotTideIntent"
    THEN request.city = NoValue \/ InDirectory(request.city)
    ELSE IF request.intent = "DialogTideIntent"
    THEN IF request.city # NoValue
         THEN InDirectory(request.city)
         ELSE /\ request.date # NoValue
              /\ session.city # <<>>
              /\ InDirectory(session.city[1].city)
              /\ session.city[1].station = DirectoryStation(session.city[1].city)
    ELSE FALSE

\* the turn has a resolved date: of its date value, today by default, or
\* the stored one when the turn brings a city
DateReady ==
    IF request.intent = "OneshotTideIntent"
    THEN request.date = NoValue \/ IsCalendarDate(request.date)
    ELSE IF request.intent = "DialogTideIntent"
    THEN IF request.city # NoValue
         THEN /\ session.date # <<>>
              /\ \E d \in ValidDates :
                    session.date[1].requestDateParam = ResolvedParam(d)
         ELSE IsCalendarDate(request.date)
    ELSE FALSE

\* C8: a turn issues at most one fetch; it issues one exactly when it has
\* both a city resolved from the directory and a resolved date; a turn that
\* answers with a question issues none.
C8_OneFetchIffReady ==
    request.intent # "none"
    => /\ Len(fetches) <= 1
       /\ fetches # <<>> <=> (CityReady /\ DateReady)
       /\ (responses # <<>> /\ responses[1].type = "ask") => fetches = <<>>

\* the first step of s, not before the step from, that rises (or that does
\* not rise); 0 when from is 0 or no such step exists
NextStepOf(s, from, rises) ==
    LET steps == { i \in from..(Len(s) - 1) : Rising(s, i) = rises } IN
    IF from = 0 \/ steps = {} THEN 0
    ELSE CHOOSE i \in steps : \A j \in steps : i <= j

After(i) == IF i = 0 THEN 0 ELSE i + 1

\* the runs of s: the first rising step, the first step after it that does
\* not rise, the next rising step, the next step that does not rise.  The
\* samples these steps leave from are the ends of the leading falling
\* samples, of the first rising run, of the falling run and of the second
\* rising run.
RunsOf(s) ==
    LET r1 == NextStepOf(s, 1, TRUE)
        f1 == NextStepOf(s, After(r1), FALSE)
        r2 == NextStepOf(s, After(f1), TRUE)
        f2 == NextStepOf(s, After(r2), FALSE)
    IN  [r1 |-> r1, f1 |-> f1, r2 |-> r2, f2 |-> f2]

\* C9: for a series of a rising run, a falling run, a rising run and a falling
\* sample, after any leading falling samples, the summary has the last sample
\* of the first rising run as first high, the last sample of the falling run
\* as low and the last sample of the second rising run as second high,
\* whatever follows that falling sample.
C9_HoldsLastBeforeReversal ==
    GotSeries
    => \A runs \in {RunsOf(body[1].levels)} :
        runs.f2 # 0
        => /\ thrown = "none"
           /\ responses =
                << tellWithCard(Speech("first high tide, low tide, second high tide",
                                       Plymouth, "Today",
                                       << getFormattedTime(runs.f1),
                                          getFormattedTime(runs.r2),
                                          getFormattedTime(runs.f2) >>)) >>

\* a summary was given for a series with a leading falling sample, a first
\* rising run of two steps and samples after the fall that ends the second
\* rising run
C9_Witness ==
    /\ GotSeries
    /\ SummaryGiven
    /\ RunsOf(body[1].levels).r1 = 2
    /\ RunsOf(body[1].levels).f1 = 4
    /\ RunsOf(body[1].levels).f2 # 0
    /\ RunsOf(body[1].levels).f2 + 1 < Len(body[1].levels)

\* C10: no summary is given for a series with fewer than 3 direction changes:
\* the extraction ends in the malformed-input condition.
C10_SummaryNeedsThreeChanges ==
    (GotSeries /\ DirectionChanges(body[1].levels) < 3)
    => (~SummaryGiven /\ thrown # "none")

\* two city values that differ at most in the case of their letters
SameLettersIgnoringCase(a, b) ==
    /\ Len(a) = Len(b)
    /\ \A i \in 1..Len(a) :
          \/ a[i] = b[i]
          \/ \E k \in 1..26 : {a[i], b[i]} = {UpperChars[k], LowerChars[k]}

\* the City Resolver was called on two spellings of one name
TwoSpellingsResolved ==
    /\ pc = "city resolved"
    /\ input.first # NoValue
    /\ input.second # NoValue
    /\ SameLettersIgnoringCase(input.first, input.second)

\* C11: two city values that differ only in letter case get the same outcome
\* from the City Resolver: the station id of the directory for both when the
\* case-folded name is in the directory, and an error for both otherwise.
C11_CaseInsensitive ==
    TwoSpellingsResolved
    => LET a == output[1].first
           b == output[1].second
       IN  IF InDirectory(input.first)
           THEN /\ ~a.error /\ ~b.error
                /\ a.station = DirectoryStation(input.first)
                /\ b.station = DirectoryStation(input.first)
           ELSE a.error /\ b.error

\* C11, the part that holds of every name: two spellings of one name get the
\* same outcome, whatever it is
C11_SameOutcome ==
    TwoSpellingsResolved
    => /\ output[1].first.error = output[1].second.error
       /\ output[1].first.station = output[1].second.station

\* C11 for the names no object inherits
C11_OrdinaryNames ==
    (TwoSpellingsResolved /\ toLowerCase(input.first) \notin InheritedKeys)
    => C11_CaseInsensitive

Rendered(reading, n, half) ==
    (IF reading < 0 /\ (n # 0 \/ half) THEN "-" ELSE "")
    \o ToString(n) \o (IF half THEN " and a half" ELSE "") \o " feet"

\* C13: the height formatter rounds to the nearest half foot by the fraction
\* of the magnitude (below .25 the whole number below, from .25 to .75 that
\* number and a half, above .75 the next whole number; at .75 itself either
\* of the two), and the text of a negative reading keeps the negative sign,
\* also when the reading lies between -1 and 0 and rounds to a half.
C13_HalfFootBands ==
    pc = "height formatted"
    => LET magnitude == IF input < 0 THEN -input ELSE input
           whole == magnitude \div 100
           fraction == magnitude % 100
       IN  IF fraction < 25 THEN output[1] = Rendered(input, whole, FALSE)
           ELSE IF fraction < 75 THEN output[1] = Rendered(input, whole, TRUE)
           ELSE IF fraction > 75 THEN output[1] = Rendered(input, whole + 1, FALSE)
           ELSE output[1] \in {Rendered(input, whole, TRUE),
                               Rendered(input, whole + 1, FALSE)}

\* C13 for the readings outside -1 .. 0
C13_OutsideMinusOneToZero ==
    (pc = "height formatted" /\ input \notin (-99)..(-1)) => C13_HalfFootBands

\* the turn is one of the recoverable errors: a city value outside the
\* directory, a dialog turn without any slot value, or a date value that
\* cannot be read where the turn resolves the date
RecoverableErrorTurn ==
    \/ /\ request.intent \in {"OneshotTideIntent", "DialogTideIntent"}
       /\ NotInDirectory(request.city)
    \/ /\ request.intent = "DialogTideIntent"
       /\ request.city = NoValue /\ request.date = NoValue
    \/ DateTurn /\ Unparseable(request.date)

\* the response is a question with a reprompt that keeps the session open
IsQuestion(r) == r.type = "ask" /\ r.reprompt # <<>> /\ ~r.shouldEndSession

\* the response is a final answer: told with a card, ending the session
IsFinalAnswer(r) == r.type = "tellWithCard" /\ r.shouldEndSession

\* the turn went down the final answer path and its request has completed
FinalPathDone == pc = "idle" /\ fetches # <<>>

\* C14: every recoverable error turn (unknown city, missing slot, unreadable
\* date) is answered with a question and a reprompt and keeps the session
\* open; every turn that reaches the final answer path, the fetch succeeding
\* or failing, is answered with a tell-with-card that ends the session; and
\* no turn both keeps the session open and gives a final answer.
C14_QuestionOrFinalAnswer ==
    /\ RecoverableErrorTurn
       => /\ pc = "idle"
          /\ Len(responses) = 1
          /\ IsQuestion(responses[1])
          /\ ~SessionEnded
    /\ FinalPathDone
       => /\ responses # <<>>
          /\ \A i \in 1..Len(responses) : IsFinalAnswer(responses[i])
          /\ SessionEnded
    /\ ~ \E i, j \in 1..Len(responses) :
            IsQuestion(responses[i]) /\ IsFinalAnswer(responses[j])

\* C14 where the city is no inherited name, the date can be read and the
\* handlers of the request return: the errors of city and slot are questions,
\* the completed fetch is a final answer, and never both
C14_WithoutDateAndCrash ==
    (/\ toLowerCase(request.city) \notin InheritedKeys
     /\ ~Unparseable(request.date)
     /\ thrown = "none")
    => C14_QuestionOrFinalAnswer

\* C15: for a supplied date value that is a calendar date the Date Resolver
\* gives the query parameter begin_date=YYYYMMDD&range=24, the year in four
\* digits and month and day in two, of exactly the supplied day; with no date
\* value it gives the display text "Today" and the query parameter date=today.
C15_EncodesSuppliedDate ==
    pc = "date resolved"
    => IF input = NoValue
       THEN output[1] = << [displayDate |-> "Today", requestDateParam |-> "date=today"] >>
       ELSE /\ IsCalendarDate(input)
            /\ Len(output[1]) = 1
            /\ output[1][1].requestDateParam = ExpectedParam(input)

\* C15 in a process whose time zone is not west of UTC
C15_NotWestOfUtc ==
    (pc = "date resolved" /\ zone >= 0) => C15_EncodesSuppliedDate

\* a DialogTideIntent turn with neither slot populated
NoSlotDialogTurn ==
    request.intent = "DialogTideIntent" /\ request.city = NoValue /\ request.date = NoValue

\* C16: a turn that ends in a city error (one-shot or dialog: the city value
\* is outside the directory) or in a dialog date failure (the date value of a
\* dialog date turn cannot be read), and a dialog turn with neither slot
\* populated, leaves the stored city and the stored date as they were.
C16_ErrorTurnsKeepSession ==
    [][ (/\ TurnBegins
         /\ \/ /\ request'.intent \in {"OneshotTideIntent", "DialogTideIntent"}
               /\ NotInDirectory(request'.city)
            \/ /\ request'.intent = "DialogTideIntent"
               /\ request'.city = NoValue
               /\ Unparseable(request'.date)
            \/ NoSlotDialogTurn')
        => session' = session
      ]_vars

\* C16 by the answer of the turn: a turn answered with the unknown-city
\* question or the bad-date question, and a dialog turn with neither slot
\* populated, leaves the stored city and the stored date as they were
C16_ErrorAnswersKeepSession ==
    [][ (/\ TurnBegins
         /\ \/ /\ request'.intent \in {"OneshotTideIntent", "DialogTideIntent"}
               /\ responses' = <<UnknownCityQuestion(request'.city)>>
            \/ /\ request'.intent = "DialogTideIntent"
               /\ responses' = <<BadDateQuestion>>
            \/ NoSlotDialogTurn')
        => session' = session
      ]_vars

\* the re-prompt for the date: "Please try again saying a day of the week"
DateRepromptQuestion ==
    ask(Text("try again saying a day"), Text("try again saying a day"))

\* the supported-cities prompt
SupportedCitiesQuestion ==
    ask(Text("I know these towns, which town"), Text("which town"))

\* C17: a DialogTideIntent turn in which neither slot has a value re-prompts
\* for the date when a city is stored in the session, and otherwise gives the
\* supported-cities prompt, also when only a date is stored; it issues no
\* fetch and the session stays open.
C17_NoSlotReprompts ==
    [][ (TurnBegins /\ NoSlotDialogTurn')
        => /\ responses' = << IF session.city # <<>> THEN DateRepromptQuestion
                              ELSE SupportedCitiesQuestion >>
           /\ fetches' = <<>>
           /\ pc' = "idle"
           /\ ~SessionEnded'
      ]_vars

\* a dialog turn without slot values met a session that stores a date only,
\* and was answered with the supported-cities prompt
C17_Witness ==
    /\ NoSlotDialogTurn
    /\ session.city = <<>>
    /\ session.date # <<>>
    /\ responses = <<SupportedCitiesQuestion>>
    /\ fetches = <<>>

\* the step from sample i to sample i + 1 of the series s is level
Level(s, i) == i # 0 /\ s[i] = s[i + 1]

\* the sample number i of the series s, as the extractor holds it
Sample(s, i) == [t |-> i, v |-> s[i]]

\* C18: the Tide Extractor takes a step between samples of equal level for a
\* falling one.  When the first rising run ends in a level step, the loop,
\* having read the plateau sample, has closed the first high at the sample
\* before the plateau and holds the plateau sample as low; when the second
\* rising run ends in a level step, the extraction stops there: the summary
\* has the sample before the plateau as second high, whatever follows.
C18_LevelStepFalls ==
    GotSeries
    => \A runs \in {RunsOf(body[1].levels)} :
        LET s == body[1].levels IN
        /\ Level(s, runs.f1)
           => \A st \in {ScanFrom(Predictions(SubSeq(s, 1, runs.f1 + 1)), 1, ScanInit)} :
                /\ st.firstTideDone
                /\ st.firstHighTide = <<Sample(s, runs.f1)>>
                /\ st.lowTide = <<Sample(s, runs.f1 + 1)>>
                /\ st.secondHighTide = <<>>
                /\ SummaryGiven
                   => responses[1].speech.tides[1] = getFormattedTime(runs.f1)
        /\ Level(s, runs.f2)
           => /\ thrown = "none"
              /\ responses =
                   << tellWithCard(Speech("first high tide, low tide, second high tide",
                                          Plymouth, "Today",
                                          << getFormattedTime(runs.f1),
                                             getFormattedTime(runs.r2),
                                             getFormattedTime(runs.f2) >>)) >>

\* a summary was given for a series whose two rising runs both end in a level
\* step, with a higher sample after the second plateau
C18_Witness ==
    /\ GotSeries
    /\ SummaryGiven
    /\ Level(body[1].levels, RunsOf(body[1].levels).f1)
    /\ Level(body[1].levels, RunsOf(body[1].levels).f2)
    /\ \E i \in 1..Len(body[1].levels) :
          /\ i > RunsOf(body[1].levels).f2 + 1
          /\ body[1].levels[i] > body[1].levels[RunsOf(body[1].levels).f2]

\* C19: within one turn the completion callback of the fetch, and with it
\* the response to the user, is invoked at most once, whatever the outcome of
\* the request, a status other than 200 whose body is still delivered and
\* ended included: no turn sends two responses.
C19_AtMostOneResponse ==
    Len(responses) <= 1

\* C19 for the requests answered with status 200 or failed in transport
C19_OneResponseOn200 ==
    statusCode \in {0, 200} => C19_AtMostOneResponse

\* a DialogTideIntent turn in which both slots carry a value
BothSlotsDialogTurn ==
    request.intent = "DialogTideIntent" /\ request.city # NoValue /\ request.date # NoValue

\* C20: a DialogTideIntent turn in which both the city slot and the date slot
\* carry values is a city turn only: the date value of the turn is not
\* resolved, not stored and not used for a fetch; with a city of the
\* directory the turn fetches with the stored date if there is one, and
\* otherwise stores the city and asks for the date.
C20_BothSlotsIsCityTurn ==
    [][ (TurnBegins /\ BothSlotsDialogTurn')
        => /\ dateCalls' = <<>>
           /\ session'.date = session.date
           /\ \A i \in 1..Len(fetches') :
                /\ session.date # <<>>
                /\ fetches'[i].requestDateParam = session.date[1].requestDateParam
           /\ InDirectory(request'.city)
              => IF session.date # <<>>
                 THEN /\ fetches' = <<[station |-> DirectoryStation(request'.city),
                                       requestDateParam |->
                                           session.date[1].requestDateParam]>>
                      /\ responses' = <<>>
                 ELSE /\ fetches' = <<>>
                      /\ session'.city = <<ResolvedCity(request'.city)>>
                      /\ responses' = <<ask(Text("for which date"),
                                            Speech("for which date, for city",
                                                   request'.city, "", <<>>))>>
      ]_vars

\* a dialog turn with Plymouth and a date met a stored date and fetched with
\* the stored one, which is another than the date of the turn
C20_Witness ==
    /\ BothSlotsDialogTurn
    /\ request.city = Plymouth
    /\ IsCalendarDate(request.date)
    /\ session.date # <<>>
    /\ fetches = <<[station |-> DirectoryStation(Plymouth),
                    requestDateParam |-> session.date[1].requestDateParam]>>
    /\ session.date[1].requestDateParam # ResolvedParam(request.date)

\* the summary the extractor returns when its readings are the samples
\* number i, j and k of the series s
SummaryOf(s, i, j, k) ==
    [firstHighTideTime |-> getFormattedTime(i),
     firstHighTideHeight |-> getFormattedHeight(s[i]),
     lowTideTime |-> getFormattedTime(j),
     lowTideHeight |-> getFormattedHeight(s[j]),
     secondHighTideTime |-> getFormattedTime(k),
     secondHighTideHeight |-> getFormattedHeight(s[k])]

\* C21: whenever the Tide Extractor returns a summary, its three readings
\* are samples of the series in strict series order, first high before low
\* before second high, the first high strictly higher than the sample before
\* it and the second high strictly higher than the sample before it.
C21_ReadingsInSeriesOrder ==
    (GotSeries /\ SummaryGiven)
    => LET s == body[1].levels IN
       \A highTide \in {findHighTide(Predictions(s))} :
       \E i \in 2..Len(s) :
          /\ s[i] > s[i - 1]
          /\ \A n \in 1..Len(responses) :
                responses[n].speech.tides[1] = getFormattedTime(i)
          /\ \E k \in (i + 2)..Len(s) :
                /\ s[k] > s[k - 1]
                /\ \A n \in 1..Len(responses) :
                      responses[n].speech.tides[3] = getFormattedTime(k)
                /\ \E j \in (i + 1)..(k - 1) :
                      /\ \A n \in 1..Len(responses) :
                            responses[n].speech.tides[2] = getFormattedTime(j)
                      /\ highTide = <<SummaryOf(s, i, j, k)>>

\* a summary was given for a series that ends with its second rise, the
\* low not being the sample next to either high
C21_Witness ==
    /\ GotSeries
    /\ SummaryGiven
    /\ RunsOf(body[1].levels).r2 # 0
    /\ RunsOf(body[1].levels).f2 = 0
    /\ RunsOf(body[1].levels).r2 > RunsOf(body[1].levels).f1 + 1
    /\ Len(body[1].levels) > RunsOf(body[1].levels).r2 + 1

\* the session holds a city and a date at once
HoldsCityAndDate == session.city # <<>> /\ session.date # <<>>

\* C22: from an empty session, after any sequence of turns, the session
\* attributes hold at most one of a stored city and a stored date, and a
\* stored city is a successful resolution whose station is the directory's
\* station for that city.
C22_OneStoredDirectoryValue ==
    /\ ~HoldsCityAndDate
    /\ session.city # <<>>
       => /\ ~session.city[1].error
          /\ InDirectory(session.city[1].city)
          /\ session.city[1].station = DirectoryStation(session.city[1].city)

\* C22, the part that holds of every conversation: never a city and a date
\* at once, and a stored city is never an error
C22_AtMostOneStored ==
    /\ ~HoldsCityAndDate
    /\ session.city # <<>> => ~session.city[1].error

\* C22 where the stored city is no name every object inherits
C22_OrdinaryNames ==
    (session.city = <<>> \/ toLowerCase(session.city[1].city) \notin InheritedKeys)
    => C22_OneStoredDirectoryValue

====
